---- MODULE Spec2Model ----
(***************************************************************************)
(* Model of organizer.py: a command-line file organizer that plans moves   *)
(* of files into category folders (plan_moves) and executes them           *)
(* (apply_moves).                                                          *)
(*                                                                         *)
(* A file name is a sequence of atoms: "." is the dot character, every     *)
(* other atom is a run of characters holding neither a dot nor a path      *)
(* separator.  A path is a sequence of names, from the filesystem root.    *)
(* The filesystem is a function from the paths of the regular files to the *)
(* identity of their content, and the set of the directories' paths.       *)
(***************************************************************************)
EXTENDS Integers, Sequences, FiniteSets, TLC

\* Largest number of regular files in the initial filesystem.
MaxFiles == 3

VARIABLES
    files,      \* regular files: path -> content identity
    dirs,       \* directories (set of paths)
    sep,        \* os.sep of the platform the program runs on
    args,       \* argparse.Namespace of the run
    pc,         \* position in main
    todo,       \* files iter_files has still to yield
    moves,      \* List[MovePlan] built by plan_moves
    i,          \* index of the next item of apply_moves' loop (1-based)
    ok,         \* apply_moves: ok
    failed,     \* apply_moves: failed
    errors,     \* apply_moves: errors (the MovePlan each message describes)
    answer,     \* what input() returned, or EOF
    exit_code,  \* the process's exit status, -1 while running
    run,        \* 1: first invocation, 2: the same command line run again
    hist        \* history: snapshots and a log of what the run did

vars == <<files, dirs, sep, args, pc, todo, moves, i, ok, failed, errors,
          answer, exit_code, run, hist>>

----------------------------------------------------------------------------
(* Names and paths (pathlib)                                               *)

\* str.lower() on the atoms the model uses
Lower(a) ==
    CASE a = "PDF" -> "pdf"
      [] a = "JPG" -> "jpg"
      [] a = "Y"   -> "y"
      [] OTHER     -> a

LowerSeq(s) == [k \in 1..Len(s) |-> Lower(s[k])]

\* str.rfind("."), 1-based; 0 when there is no dot
RFindDot(name) ==
    LET D == {k \in 1..Len(name) : name[k] = "."}
    IN  IF D = {} THEN 0 ELSE CHOOSE k \in D : \A j \in D : j <= k

\* PurePath.suffix: the final component's last dot and what follows it,
\* unless that dot is the first or the last character
Suffix(name) ==
    LET d == RFindDot(name)
    IN  IF 1 < d /\ d < Len(name) THEN SubSeq(name, d, Len(name)) ELSE <<>>

\* PurePath.stem
Stem(name) ==
    LET d == RFindDot(name)
    IN  IF 1 < d /\ d < Len(name) THEN SubSeq(name, 1, d - 1) ELSE name

\* PurePath.name and PurePath.parent
Name(p) == p[Len(p)]
Parent(p) == SubSeq(p, 1, Len(p) - 1)

IsPrefix(r, p) == Len(r) <= Len(p) /\ SubSeq(p, 1, Len(r)) = r

\* PurePath.relative_to(root)
RelativeTo(p, root) == SubSeq(p, Len(root) + 1, Len(p))

\* str(path): the segments' characters joined by os.sep
RECURSIVE Str(_, _)
Str(rel, s) ==
    IF rel = <<>> THEN <<>>
    ELSE IF Len(rel) = 1 THEN rel[1]
    ELSE rel[1] \o <<s>> \o Str(Tail(rel), s)

\* Path.exists()
Exists(p, fs, ds) == p \in DOMAIN fs \/ p \in ds

\* Path.mkdir(parents=True, exist_ok=True) on a path no prefix of which is a
\* regular file: the path and its missing ancestors become directories
MkdirP(p, ds) == ds \cup {SubSeq(p, 1, k) : k \in 1..Len(p)}

\* mkdir(parents=True, exist_ok=True) raises (FileExistsError or
\* NotADirectoryError) when the path or one of its ancestors is a regular file
MkdirRaises(p, fs) == \E k \in 1..Len(p) : SubSeq(p, 1, k) \in DOMAIN fs

----------------------------------------------------------------------------
(* Module-level data                                                       *)

Documents == {"pdf", "doc", "docx", "odt", "txt", "md", "rtf"}
Sheets    == {"xls", "xlsx", "csv"}
Slides    == {"ppt", "pptx"}
Images    == {"jpg", "jpeg", "png", "gif", "tif", "tiff", "bmp", "webp"}
Audio     == {"mp3", "wav", "flac", "m4a"}
Video     == {"mp4", "mov", "mkv", "avi"}
Archives  == {"zip", "rar", "7z", "tar", "gz"}
Code      == {"py", "ipynb", "js", "ts"}
Data      == {"json"}
Config    == {"yml", "yaml", "toml"}

\* DEFAULT_RULES: extension (dot included, lower case) -> folder name
DEFAULT_RULES ==
    [e \in {<<".", x>> : x \in Documents \cup Sheets \cup Slides \cup Images
                                \cup Audio \cup Video \cup Archives \cup Code
                                \cup Data \cup Config} |->
        CASE e[2] \in Documents -> "docs"
          [] e[2] \in Sheets    -> "sheets"
          [] e[2] \in Slides    -> "slides"
          [] e[2] \in Images    -> "images"
          [] e[2] \in Audio     -> "audio"
          [] e[2] \in Video     -> "video"
          [] e[2] \in Archives  -> "archives"
          [] e[2] \in Code      -> "code"
          [] e[2] \in Data      -> "data"
          [] OTHER              -> "config"]

\* HIDDEN_PATTERN.search(s) for the pattern (^\.|/\.): a dot that starts the
\* string or follows a forward slash
HIDDEN_PATTERN(s) ==
    \E k \in 1..Len(s) : s[k] = "." /\ (k = 1 \/ s[k - 1] = "/")

\* MovePlan
MovePlan(src, dst) == [src |-> src, dst |-> dst]

----------------------------------------------------------------------------
(* The environment: the directories and files the runs start from, and     *)
(* what the command line can name                                          *)

SRC == <<<<"src">>>>
DST == <<<<"dst">>>>
MISSING == <<<<"missing">>>>
NEW_RULES == <<<<"rules", ".", "json">>>>
BAD_RULES == <<<<"bad", ".", "json">>>>
CUSTOM_RULES == <<<<"custom", ".", "json">>>>

report == <<"report", ".", "pdf">>
report2 == <<"report", " (2)", ".", "pdf">>
photo == <<"photo", ".", "JPG">>

\* The regular files an initial filesystem may hold
Candidates ==
    { SRC \o <<report>>,
      SRC \o <<report2>>,
      SRC \o <<<<"sub">>, report>>,
      SRC \o <<<<"docs">>, report>>,
      DST \o <<<<"docs">>, report>>,
      SRC \o <<<<".", "env">>>>,
      SRC \o <<<<"sub">>, <<".", "git">>, photo>>,
      SRC \o <<<<"docs">>>> }

Ancestors(p) == {SubSeq(p, 1, k) : k \in 1..(Len(p) - 1)}

\* A set of files is a filesystem when no file is a directory of another
Consistent(F) == \A p \in F, q \in F : p \notin Ancestors(q)

\* What the user may type at the prompt; EOF is end of input
EOF == <<"EOF">>
Answers == { EOF, <<"y">>, <<" ", "Y">>, <<"n">>, <<"y", "e", "s">>, <<>> }

\* str.strip()
RECURSIVE LStrip(_)
LStrip(s) == IF s # <<>> /\ s[1] = " " THEN LStrip(Tail(s)) ELSE s
RECURSIVE RStrip(_)
RStrip(s) ==
    IF s # <<>> /\ s[Len(s)] = " " THEN RStrip(SubSeq(s, 1, Len(s) - 1)) ELSE s
Strip(s) == LStrip(RStrip(s))

----------------------------------------------------------------------------
(* The functions of organizer.py                                           *)

NONE == <<>>

\* json.load of the document at `path`: its items in document order; the
\* document at BAD_RULES does not load
RulesDocument(path) ==
    IF path = CUSTOM_RULES
    THEN << [k |-> <<"PDF">>, v |-> "papers"],
            [k |-> <<" ", ".", "txt">>, v |-> "notes"] >>
    ELSE <<>>

\* load_rules, the key of one item: strip, lower, leading dot
NormalizeKey(k) ==
    LET t == LowerSeq(Strip(k))
    IN  IF t # <<>> /\ t[1] = "." THEN t ELSE <<".">> \o t

\* load_rules(path)
load_rules(path) ==
    IF path = NONE THEN DEFAULT_RULES
    ELSE LET data == RulesDocument(path)
             Last(key) == CHOOSE n \in 1..Len(data) :
                             /\ NormalizeKey(data[n].k) = key
                             /\ \A j \in 1..Len(data) :
                                  NormalizeKey(data[j].k) = key => j <= n
         IN  [key \in {NormalizeKey(data[n].k) : n \in 1..Len(data)} |->
                 data[Last(key)].v]

\* load_rules raises SystemExit: the document is missing or is not JSON
LoadRulesRaises(path) == path = BAD_RULES

\* iter_files(root, recursive, include_hidden): the files it yields
iter_files(root, recursive, include_hidden, fs, s) ==
    IF recursive
    THEN { p \in DOMAIN fs :
             /\ Len(p) > Len(root) /\ IsPrefix(root, p)
             /\ ~(~include_hidden /\ HIDDEN_PATTERN(Str(RelativeTo(p, root), s))) }
    ELSE { p \in DOMAIN fs :
             /\ Parent(p) = root
             /\ ~(~include_hidden /\ Name(p)[1] = ".") }

\* categorize(path, rules, unknown)
categorize(path, rules, unknown) ==
    LET ext == LowerSeq(Suffix(Name(path)))
    IN  IF ext \in DOMAIN rules THEN rules[ext] ELSE unknown

\* the " (i)" that unique_destination puts between stem and suffix
Numbered(name, n) ==
    Stem(name) \o <<" (" \o ToString(n) \o ")">> \o Suffix(name)

\* unique_destination's loop, from counter n on
RECURSIVE NextFree(_, _, _, _, _)
NextFree(dst_dir, name, n, fs, ds) ==
    LET candidate == dst_dir \o <<Numbered(name, n)>>
    IN  IF ~Exists(candidate, fs, ds) THEN candidate
        ELSE NextFree(dst_dir, name, n + 1, fs, ds)

\* unique_destination(dst_dir, name)
unique_destination(dst_dir, name, fs, ds) ==
    LET candidate == dst_dir \o <<name>>
    IN  IF ~Exists(candidate, fs, ds) THEN candidate
        ELSE NextFree(dst_dir, name, 2, fs, ds)

\* Path.resolve() of a path without symbolic links
Resolve(p) == p

\* the directory plan_moves files `file` under
TargetDir(dest, file, rules, unknown) ==
    dest \o << <<categorize(file, rules, unknown)>> >>

\* shutil.move(src, dst) raises: the source is gone, or dst is a directory
\* that already holds an entry of the source's name
MoveRaises(m, fs, ds) ==
    \/ m.src \notin DOMAIN fs
    \/ m.dst \in ds /\ Exists(m.dst \o <<Name(m.src)>>, fs, ds)

\* where shutil.move puts the file: into dst when dst is a directory
RealDst(m, ds) == IF m.dst \in ds THEN m.dst \o <<Name(m.src)>> ELSE m.dst

\* the regular files after shutil.move(src, dst): os.rename replaces a
\* regular file at the destination
ShutilMove(m, fs, ds) ==
    LET real == RealDst(m, ds)
        D == (DOMAIN fs \ {m.src}) \cup {real}
    IN  [p \in D |-> IF p = real THEN fs[m.src] ELSE fs[p]]

----------------------------------------------------------------------------
(* The command lines                                                       *)

\* argparse.Namespace returned by parse_args; NONE is None
Namespace(wdr, source, dest, rules, recursive, include_hidden, dry_run, yes) ==
    [ write_default_rules |-> wdr, source |-> source, dest |-> dest,
      rules |-> rules, unknown_folder |-> "others", recursive |-> recursive,
      include_hidden |-> include_hidden, dry_run |-> dry_run, yes |-> yes ]

\* The command lines argparse accepts: every flag combination of the organize
\* workflow on a usable source, and one command line for each early return
Argvs ==
    { Namespace(NONE, SRC, d, NONE, r, h, n, y) :
        d \in {NONE, DST}, r \in BOOLEAN, h \in BOOLEAN, n \in BOOLEAN,
        y \in BOOLEAN }
    \cup { Namespace(NONE, SRC, d, CUSTOM_RULES, r, FALSE, FALSE, TRUE) :
             d \in {NONE, DST}, r \in BOOLEAN }
    \cup { Namespace(w, SRC, NONE, NONE, FALSE, FALSE, FALSE, FALSE) :
             w \in {NEW_RULES, SRC} }
    \cup { Namespace(NONE, MISSING, NONE, NONE, FALSE, FALSE, FALSE, TRUE),
           Namespace(NONE, SRC \o <<report>>, NONE, NONE, FALSE, FALSE, FALSE, TRUE),
           Namespace(NONE, SRC, NONE, BAD_RULES, FALSE, FALSE, FALSE, TRUE) }

\* main: source and dest after expanduser().resolve()
source == args.source
dest == IF args.dest # NONE THEN args.dest ELSE args.source

rules == load_rules(args.rules)

----------------------------------------------------------------------------
(* State                                                                   *)

NoAnswer == <<"none">>

Init ==
    /\ \E F \in SUBSET Candidates :
          /\ Cardinality(F) <= MaxFiles
          /\ Consistent(F)
          /\ files = [p \in F |-> p]
          /\ dirs = {SRC} \cup UNION {Ancestors(p) : p \in F}
    /\ sep \in {"/", "\\"}
    /\ args = Namespace(NONE, NONE, NONE, NONE, FALSE, FALSE, FALSE, FALSE)
    /\ pc = "start"
    /\ todo = {}
    /\ moves = <<>>
    /\ i = 1
    /\ ok = 0
    /\ failed = 0
    /\ errors = <<>>
    /\ answer = NoAnswer
    /\ exit_code = -1
    /\ run = 1
    /\ hist = [ files0 |-> files, dirs0 |-> dirs, start |-> files,
                enumerated |-> {}, clobbered |-> {}, attempts |-> <<>>,
                live |-> FALSE ]

Exit(code) == pc' = "exit" /\ exit_code' = code

----------------------------------------------------------------------------
(* main                                                                    *)

\* parse_args: argparse rejects the command line (a required --source is
\* missing, an option is unknown): ArgumentParser.error exits with status 2
ArgparseError ==
    /\ pc = "start"
    /\ Exit(2)
    /\ UNCHANGED <<files, dirs, sep, args, todo, moves, i, ok, failed, errors,
                   answer, run, hist>>

\* parse_args returns a Namespace
ParseArgs ==
    /\ pc = "start"
    /\ \E a \in Argvs : args' = a
    /\ pc' = "parsed"
    /\ UNCHANGED <<files, dirs, sep, todo, moves, i, ok, failed, errors,
                   answer, exit_code, run, hist>>

\* main, --write-default-rules: write_default_rules refuses an existing path
\* (SystemExit with a message: status 1), else writes the file; return 0
WriteDefaultRules ==
    /\ pc = "parsed"
    /\ args.write_default_rules # NONE
    /\ LET path == args.write_default_rules
       IN  IF Exists(path, files, dirs)
           THEN Exit(1) /\ UNCHANGED files
           ELSE /\ files' = [p \in DOMAIN files \cup {path} |->
                               IF p = path THEN path ELSE files[p]]
                /\ Exit(0)
    /\ UNCHANGED <<dirs, sep, args, todo, moves, i, ok, failed, errors,
                   answer, run, hist>>

\* main: the source does not exist or is not a directory: return 1
SourceUnusable ==
    /\ pc = "parsed"
    /\ args.write_default_rules = NONE
    /\ source \notin dirs
    /\ Exit(1)
    /\ UNCHANGED <<files, dirs, sep, args, todo, moves, i, ok, failed, errors,
                   answer, run, hist>>

\* main: load_rules raises SystemExit with a message: status 1
RulesUnusable ==
    /\ pc = "parsed"
    /\ args.write_default_rules = NONE
    /\ source \in dirs
    /\ LoadRulesRaises(args.rules)
    /\ Exit(1)
    /\ UNCHANGED <<files, dirs, sep, args, todo, moves, i, ok, failed, errors,
                   answer, run, hist>>

\* main calls plan_moves, which starts iterating iter_files
StartPlan ==
    /\ pc = "parsed"
    /\ args.write_default_rules = NONE
    /\ source \in dirs
    /\ ~LoadRulesRaises(args.rules)
    /\ todo' = iter_files(source, args.recursive, args.include_hidden, files, sep)
    /\ moves' = <<>>
    /\ pc' = "planning"
    /\ UNCHANGED <<files, dirs, sep, args, i, ok, failed, errors, answer,
                   exit_code, run, hist>>

\* plan_moves, one iteration of the loop; the directory order decides which
\* file comes next.  An exception of mkdir is not caught: the interpreter
\* prints the traceback and exits with status 1
PlanStep ==
    /\ pc = "planning"
    /\ \E file \in todo :
         LET target_dir == TargetDir(dest, file, rules, args.unknown_folder)
         IN  /\ todo' = todo \ {file}
             /\ hist' = [hist EXCEPT !.enumerated = @ \cup {file}]
             /\ IF MkdirRaises(target_dir, files)
                THEN Exit(1) /\ UNCHANGED <<dirs, moves>>
                ELSE LET ds == MkdirP(target_dir, dirs)
                         dst == unique_destination(target_dir, Name(file), files, ds)
                     IN  /\ dirs' = ds
                         /\ moves' = IF Resolve(file) = Resolve(dst) THEN moves
                                     ELSE Append(moves, MovePlan(file, dst))
                         /\ UNCHANGED <<pc, exit_code>>
    /\ UNCHANGED <<files, sep, args, i, ok, failed, errors, answer, run>>

\* main: plan_moves returned an empty list: "Nothing to do", return 0
NothingToDo ==
    /\ pc = "planning" /\ todo = {}
    /\ moves = <<>>
    /\ Exit(0)
    /\ UNCHANGED <<files, dirs, sep, args, todo, moves, i, ok, failed, errors,
                   answer, run, hist>>

\* apply_moves is entered
EnterApply ==
    /\ pc' = "applying"
    /\ i' = 1 /\ ok' = 0 /\ failed' = 0 /\ errors' = <<>>
    /\ hist' = [hist EXCEPT !.attempts = <<>>, !.live = TRUE]

\* a dry run that falls through to apply_moves
DryRunApplies ==
    /\ pc = "planning" /\ todo = {}
    /\ moves # <<>>
    /\ args.dry_run
    /\ EnterApply
    /\ UNCHANGED <<files, dirs, sep, args, todo, moves, answer, exit_code, run>>

\* main: --dry-run: the preview is printed, return 0
DryRun ==
    /\ pc = "planning" /\ todo = {}
    /\ moves # <<>>
    /\ args.dry_run
    /\ Exit(0)
    /\ UNCHANGED <<files, dirs, sep, args, todo, moves, i, ok, failed, errors,
                   answer, run, hist>>

\* main: --yes: no prompt
SkipPrompt ==
    /\ pc = "planning" /\ todo = {}
    /\ moves # <<>>
    /\ ~args.dry_run
    /\ args.yes
    /\ EnterApply
    /\ UNCHANGED <<files, dirs, sep, args, todo, moves, answer, exit_code, run>>

\* a prompt that proceeds on anything but "n"
ProceedUnlessNo(ans) == ans # EOF /\ LowerSeq(Strip(ans)) # <<"n">>

\* input(...).strip().lower() == "y", False at end of input
Proceed(ans) == ans # EOF /\ LowerSeq(Strip(ans)) = <<"y">>

\* main: the prompt; anything but an affirmative answer: "Aborted.", return 0
Confirm ==
    /\ pc = "planning" /\ todo = {}
    /\ moves # <<>>
    /\ ~args.dry_run
    /\ ~args.yes
    /\ \E ans \in Answers :
         /\ answer' = ans
         /\ IF Proceed(ans)
            THEN EnterApply /\ UNCHANGED exit_code
            ELSE Exit(0) /\ UNCHANGED <<i, ok, failed, errors, hist>>
    /\ UNCHANGED <<files, dirs, sep, args, todo, moves, run>>

----------------------------------------------------------------------------
(* apply_moves                                                             *)

\* the try block of one item raises: mkdir or shutil.move fails by itself, or
\* the operating system refuses (permission denied, disk full, ...)
Raises(m, oserror) ==
    oserror \/ MkdirRaises(Parent(m.dst), files) \/ MoveRaises(m, files, dirs)

\* a loop that a failing item ends
NextItemOrAbort(k, raised) == IF raised THEN Len(moves) + 1 ELSE k + 1

\* the for loop of apply_moves: the except clause falls through, so the next
\* item follows a failed one as it follows a moved one
NextItem(k, raised) == k + 1

\* apply_moves, one iteration of the loop: the item is tried, a failure is
\* counted and described, and the loop goes on to the next item
ApplyStep ==
    /\ pc = "applying"
    /\ i <= Len(moves)
    /\ \E oserror \in BOOLEAN :
         LET m == moves[i]
             raised == Raises(m, oserror)
             real == RealDst(m, dirs)
         IN  /\ dirs' = IF MkdirRaises(Parent(m.dst), files) THEN dirs
                        ELSE MkdirP(Parent(m.dst), dirs)
             /\ files' = IF raised THEN files ELSE ShutilMove(m, files, dirs)
             /\ ok' = IF raised THEN ok ELSE ok + 1
             /\ failed' = IF raised THEN failed + 1 ELSE failed
             /\ errors' = IF raised THEN Append(errors, m) ELSE errors
             /\ hist' = [hist EXCEPT
                  !.attempts = Append(@, [item |-> i, raised |-> raised]),
                  !.clobbered = IF ~raised /\ real \in DOMAIN files
                                THEN @ \cup {files[real]} ELSE @]
             /\ i' = NextItem(i, raised)
    /\ UNCHANGED <<sep, args, pc, todo, moves, answer, exit_code, run>>

\* main after apply_moves: return 2 if failed else 0 when there are errors,
\* else 0
Summary ==
    /\ pc = "applying"
    /\ i > Len(moves)
    /\ Exit(IF errors # <<>> THEN (IF failed # 0 THEN 2 ELSE 0) ELSE 0)
    /\ UNCHANGED <<files, dirs, sep, args, todo, moves, i, ok, failed, errors,
                   answer, run, hist>>

\* The same command line is run again, immediately after a live run that
\* completed without a failure
Rerun ==
    /\ pc = "exit"
    /\ run = 1
    /\ hist.live /\ exit_code = 0
    /\ run' = 2
    /\ pc' = "parsed"
    /\ exit_code' = -1
    /\ todo' = {} /\ moves' = <<>>
    /\ i' = 1 /\ ok' = 0 /\ failed' = 0 /\ errors' = <<>>
    /\ answer' = NoAnswer
    /\ hist' = [hist EXCEPT !.start = files, !.enumerated = {},
                            !.attempts = <<>>, !.live = FALSE]
    /\ UNCHANGED <<files, dirs, sep, args>>

Next ==
    \/ ArgparseError
    \/ ParseArgs
    \/ WriteDefaultRules
    \/ SourceUnusable
    \/ RulesUnusable
    \/ StartPlan
    \/ PlanStep
    \/ NothingToDo
    \/ DryRun
    \/ SkipPrompt
    \/ Confirm
    \/ ApplyStep
    \/ Summary
    \/ Rerun

Spec == Init /\ [][Next]_vars

----------------------------------------------------------------------------
(* Properties                                                              *)

unknown_folder == args.unknown_folder

\* a live run of the organize workflow returned from apply_moves and main
Completed == pc = "exit" /\ hist.live

\* a segment that starts with a dot
HiddenName(name) == name # <<>> /\ name[1] = "."

\* the answers that are "y" or "Y" between any number of blanks
AffirmativeAnswer(ans) ==
    /\ ans # EOF /\ ans # NoAnswer
    /\ \E k \in 1..Len(ans) :
         /\ ans[k] \in {"y", "Y"}
         /\ \A j \in 1..Len(ans) : j # k => ans[j] = " "

\* the folder names the active rules can send a file to
Categories == {rules[e] : e \in DOMAIN rules} \cup {unknown_folder}

\* C1: a live run never overwrites an existing destination file: no move
\* that apply_moves executes lands on a path that holds a regular file when
\* it executes, so no file's content is ever replaced.
C1_NeverOverwrites == hist.clobbered = {}

\* C2: after a live run in which no move failed, every file enumerated from
\* source exists under dest/<category>/ (the rule mapping's entry for its
\* lower-cased final extension, else the unknown folder), under its own name
\* or, that name being taken, under `name (k).ext` for the smallest k >= 2
\* not taken at plan time.
C2_EveryFilePlaced ==
    (run = 1 /\ Completed /\ failed = 0) =>
        \A f \in hist.enumerated :
            LET p == unique_destination(
                         TargetDir(dest, f, rules, unknown_folder), Name(f),
                         hist.files0, dirs)
            IN  p \in DOMAIN files /\ files[p] = hist.files0[f]

\* C3: idempotence: a second run with identical flags, immediately after a
\* completed live run without failures, plans nothing.
C3_SecondPlanEmpty == run = 2 => moves = <<>>

\* C4: a --dry-run invocation moves no file: the regular files are those the
\* run started from, no directory disappears, and every directory it creates
\* is a category directory under the destination root or on the way to one.
C4_DryRunMovesNothing ==
    args.dry_run =>
        /\ files = hist.files0
        /\ hist.dirs0 \subseteq dirs
        /\ \A d \in dirs \ hist.dirs0 :
             \E c \in Categories : IsPrefix(d, dest \o << <<c>> >>)

\* C4, its case: a dry run has planned moves and created a category directory
C4_Witness ==
    /\ args.dry_run /\ pc = "exit" /\ exit_code = 0
    /\ moves # <<>>
    /\ dirs # hist.dirs0

\* C5 as stated: without --dry-run and --yes, a move is executed only after
\* the answer "y" or "Y"; after any other response no file is moved and the
\* exit code is 0.
C5_OnlyAfterY ==
    (~args.dry_run /\ ~args.yes /\ answer # NoAnswer
       /\ answer \notin {<<"y">>, <<"Y">>}) =>
        /\ files = hist.start /\ ok = 0
        /\ pc = "exit" => exit_code = 0

\* C5 as amended: without --dry-run and --yes, apply_moves is entered only
\* after an answer that is "y" or "Y" once leading and trailing whitespace is
\* removed; every other response, end of input included, ends the run with
\* no file moved and exit code 0.
C5_ConfirmationGate ==
    (~args.dry_run /\ ~args.yes) =>
        /\ hist.live => AffirmativeAnswer(answer)
        /\ (answer # NoAnswer /\ ~AffirmativeAnswer(answer)) =>
              pc = "exit" /\ exit_code = 0 /\ ~hist.live /\ files = hist.start

\* C5, its case: the user answered " Y" and a file was moved
C5_Witness ==
    /\ ~args.dry_run /\ ~args.yes
    /\ answer = <<" ", "Y">>
    /\ ok > 0 /\ files # hist.start

\* C6: without --include-hidden no plan holds a source file whose own name
\* starts with a dot, nor, in recursive mode, a file with any path segment
\* relative to the source root that starts with a dot.
C6_HiddenExcluded ==
    ~args.include_hidden =>
        \A k \in 1..Len(moves) :
            LET rel == RelativeTo(moves[k].src, source)
            IN  /\ ~HiddenName(Name(moves[k].src))
                /\ args.recursive => \A n \in 1..Len(rel) : ~HiddenName(rel[n])

\* C6 where os.sep is the forward slash
C6_HiddenExcludedPosix == sep = "/" => C6_HiddenExcluded

\* C7: apply_moves attempts every plan item exactly once, in plan order; a
\* failure does not stop the later items; on return ok + failed is the number
\* of plan items and errors describes exactly the failed items, in plan order.
C7_BestEffort ==
    hist.live =>
        LET F == SelectSeq(hist.attempts, LAMBDA a : a.raised)
        IN  /\ Len(hist.attempts) = i - 1
            /\ \A k \in 1..Len(hist.attempts) : hist.attempts[k].item = k
            /\ ok + failed = i - 1
            /\ failed = Len(F)
            /\ errors = [k \in 1..Len(F) |-> moves[F[k].item]]
            /\ pc = "exit" => /\ i - 1 = Len(moves)
                              /\ ok + failed = Len(moves)

\* C7, its case: apply_moves returned after a failed item that a moved item
\* followed
C7_Witness ==
    /\ Completed
    /\ Len(hist.attempts) >= 2
    /\ hist.attempts[1].raised /\ ~hist.attempts[2].raised
    /\ ok >= 1 /\ failed >= 1

\* C8: exit status 0 on success, nothing to do, dry run and abort; 1 on bad
\* arguments and on a missing or non-directory source; 2 when at least one
\* move failed during a live run, and in no other case.
C8_ExitCodes ==
    pc = "exit" =>
        /\ exit_code \in {0, 1, 2}
        /\ exit_code = 2 <=> (hist.live /\ failed > 0)
        /\ args.source = NONE => exit_code = 1
        /\ (args.source # NONE /\ args.write_default_rules = NONE
              /\ source \notin dirs) => exit_code = 1

\* C9: the destination paths of the entries of a plan are pairwise distinct.
C9_DistinctDestinations ==
    \A j \in 1..Len(moves), k \in 1..Len(moves) :
        j # k => moves[j].dst # moves[k].dst

\* C10: a file the enumerator yields that already is at
\* dest/<its category>/<its own name> gets no MovePlan.
C10_PlacedFileSkipped ==
    \A k \in 1..Len(moves) :
        LET f == moves[k].src
        IN  f # TargetDir(dest, f, rules, unknown_folder) \o <<Name(f)>>

====
